---- MODULE Spec2Model ----
(***************************************************************************)
(* Model of the multi-notes application (src/src/main.rs): the NotesApp    *)
(* state (notes, current_note, error), the update handler with one action  *)
(* per Message variant, and the JSON file notes.json that import_notes and *)
(* export_notes read and write.                                            *)
(*                                                                         *)
(* A Rust String is modelled as a sequence of characters over a small      *)
(* alphabet that contains the two characters JSON must escape.  The file   *)
(* holds escaped text; serialization escapes and parsing unescapes.        *)
(***************************************************************************)
EXTENDS Naturals, Sequences, FiniteSets, TLC

\* ------------------------------------------------------------------ bounds

\* Number of messages (and environment events) in one explored behaviour.
MaxSteps == 5

\* ------------------------------------------------------------ Option<T>

None == [tag |-> "None"]
Some(x) == [tag |-> "Some", val |-> x]

\* --------------------------------------------------------------- strings

Quote == "\""
Backslash == "\\"
Plain == "a"

\* String::new()
EmptyString == << >>

\* "New Note".to_string()
NewNoteTitle == <<"N", "e", "w", " ", "N", "o", "t", "e">>

\* Texts the text inputs deliver (on_input): the empty text, and a text of
\* the two characters that JSON escapes.
TextInputs == { EmptyString, <<Backslash, Quote>> }

\* enum NoteColor
NoteColor == {"Red", "Green", "Blue", "Yellow", "Orange"}

\* Identifiers uuid::Uuid::new_v4().to_string() can return (a v4 UUID is a
\* random value: nothing relates it to the keys of the store).
Uuids == { <<"1">>, <<"2">> }

\* An identifier only a file written by something else can bring in.
ForeignId == <<"x", Quote>>

Idents == Uuids \cup {ForeignId}

\* struct Note
Note(id, title, content, color) ==
    [id |-> id, title |-> title, content |-> content, color |-> color]

\* HashMap::new()
EmptyMap == << >>

\* Mutant of Insert: the map is rebuilt around the new entry alone.
InsertAlone(m, k, v) == [x \in {k} |-> v]

\* HashMap::insert: the entry under k is added or replaced.
Insert(m, k, v) == [x \in (DOMAIN m) \cup {k} |-> IF x = k THEN v ELSE m[x]]

\* ------------------------------------------------------------------ JSON

\* Mutant of Escape: the text is written as it is.
EscapeNothing(s) == s

\* serde_json's string writer: a quote or a backslash is written behind a
\* backslash, every other character of the alphabet as itself.
RECURSIVE Escape(_)
Escape(s) ==
    IF s = << >> THEN << >>
    ELSE LET c == Head(s)
         IN  (IF c \in {Quote, Backslash} THEN <<Backslash, c>> ELSE <<c>>)
                \o Escape(Tail(s))

\* serde_json's string reader over the text between the quotes: a backslash
\* must be followed by a quote or a backslash; a bare quote cannot occur
\* inside the text.  [ok |-> FALSE] is a syntax error.
RECURSIVE Unescape(_)
Unescape(e) ==
    IF e = << >> THEN [ok |-> TRUE, val |-> << >>]
    ELSE IF Head(e) = Quote THEN [ok |-> FALSE]
    ELSE IF Head(e) = Backslash
         THEN IF Len(e) >= 2 /\ e[2] \in {Quote, Backslash}
              THEN LET r == Unescape(SubSeq(e, 3, Len(e)))
                   IN  IF r.ok THEN [ok |-> TRUE, val |-> <<e[2]>> \o r.val]
                       ELSE r
              ELSE [ok |-> FALSE]
    ELSE LET r == Unescape(Tail(e))
         IN  IF r.ok THEN [ok |-> TRUE, val |-> <<Head(e)>> \o r.val] ELSE r

\* One member of the top-level JSON object: the key and the four fields of
\* the Note object behind it, as the text written between the quotes.
Member(key, id, title, content, color) ==
    [key |-> key, id |-> id, title |-> title, content |-> content,
     color |-> color]

\* A file's content: the members of the top-level object in file order;
\* complete is FALSE when the text stops before the closing brace.
Doc(members, complete) == [members |-> members, complete |-> complete]

\* notes.json does not exist.
NoFile == [missing |-> TRUE]

\* The orders in which HashMap iteration can visit the keys of m.
Orders(m) ==
    { o \in [1..Cardinality(DOMAIN m) -> DOMAIN m] :
          \A i, j \in DOMAIN o : i # j => o[i] # o[j] }

\* Serialize for Note (derive): the four fields; a NoteColor is written as
\* the name of its variant.
SerializeNote(key, n) ==
    Member(Escape(key), Escape(n.id), Escape(n.title), Escape(n.content),
           n.color)

\* serde_json::to_string(&self.notes), visiting the entries in order o.
to_string(m, o) ==
    Doc([i \in 1..Len(o) |-> SerializeNote(o[i], m[o[i]])], TRUE)

\* Deserialize for HashMap<String, Note>: the members are read in file
\* order and inserted one by one (a repeated key keeps the last one); the
\* first member that cannot be read ends the parse with an error.  partial
\* is the map built up to the failure; it is dropped with the error.
RECURSIVE ParseMembers(_, _)
ParseMembers(ms, acc) ==
    IF ms = << >> THEN [ok |-> TRUE, map |-> acc]
    ELSE LET m  == Head(ms)
             k  == Unescape(m.key)
             i  == Unescape(m.id)
             t  == Unescape(m.title)
             c  == Unescape(m.content)
         IN  IF ~(k.ok /\ i.ok /\ t.ok /\ c.ok)
             THEN [ok |-> FALSE, err |-> "InvalidEscape", partial |-> acc]
             ELSE IF m.color \notin NoteColor
             THEN [ok |-> FALSE, err |-> "UnknownVariant", partial |-> acc]
             ELSE ParseMembers(Tail(ms),
                      Insert(acc, k.val, Note(i.val, t.val, c.val, m.color)))

\* serde_json::from_str::<HashMap<String, Note>>(&json)
from_str(doc) ==
    LET p == ParseMembers(doc.members, EmptyMap)
    IN  IF ~p.ok THEN p
        ELSE IF ~doc.complete
        THEN [ok |-> FALSE, err |-> "Eof", partial |-> p.map]
        ELSE p

\* e.to_string(): the Display text of the std::io and serde_json errors.
ErrorText(e) ==
    CASE e = "NotFound"       -> "No such file or directory (os error 2)"
      [] e = "WriteFailed"    -> "Permission denied (os error 13)"
      [] e = "Eof"            -> "EOF while parsing an object"
      [] e = "InvalidEscape"  -> "invalid escape"
      [] e = "UnknownVariant" -> "unknown variant, expected one of Red, Green, Blue, Yellow, Orange"

\* ----------------------------------------------------------------- state

VARIABLES
    notes,          \* NotesApp.notes: HashMap<String, Note>
    current_note,   \* NotesApp.current_note: Option<String>
    error,          \* NotesApp.error: Option<String>
    file,           \* the content of notes.json, or NoFile
    op,             \* history: the operation that led to this state
                    \*   (name, and the argument or generated id if any)
    saved,          \* history: Some(M) while notes.json is what the last
                    \*   successful export of mapping M wrote, else None
    last_io,        \* history: outcome of the latest of import, export and
                    \*   ClearError in this run of the program
    created,        \* history: the identifiers CreateNote has generated
    events,         \* history: "ExternalWrite" once notes.json was written
                    \*   by something else; "ImportOk" and "SelectUnoffered"
                    \*   once this run of the program imported successfully
                    \*   or selected an identifier the note list did not offer
    steps           \* history: number of steps taken

vars == <<notes, current_note, error, file, op, saved, last_io, created,
         events, steps>>

app == <<notes, current_note, error>>

Tick == steps < MaxSteps /\ steps' = steps + 1

\* NotesApp::new, and the world it starts in: no notes.json yet.
Init ==
    /\ notes = EmptyMap
    /\ current_note = None
    /\ error = None
    /\ file = NoFile
    /\ op = [name |-> "new"]
    /\ saved = None
    /\ last_io = [res |-> "none", msg |-> ""]
    /\ created = {}
    /\ events = {}
    /\ steps = 0

\* ------------------------------------------------------------ operations

\* uuid::Uuid::new_v4().to_string(): any identifier of the UUID space.
new_v4 == Uuids

\* Mutant of NewNote: the title is left empty.
NewNoteUntitled(id) == Note(id, EmptyString, EmptyString, "Yellow")

\* Mutant of NewNote: the id field gets an identifier of its own.
NewNoteOtherId(id) ==
    Note(CHOOSE u \in Uuids : u # id, NewNoteTitle, EmptyString, "Yellow")

\* The Note that CreateNote builds around the generated identifier.
NewNote(id) == Note(id, NewNoteTitle, EmptyString, "Yellow")

\* Message::CreateNote
CreateNote ==
    \E id \in new_v4 :
        /\ Tick
        /\ notes' = Insert(notes, id, NewNote(id))
        /\ current_note' = Some(id)
        /\ created' = created \cup {id}
        /\ op' = [name |-> "CreateNote", arg |-> id]
        /\ UNCHANGED <<error, file, saved, last_io, events>>

\* NotesApp::view, the note list: one button per note, whose press sends
\* SelectNote(note.id).
Offered == { notes[k].id : k \in DOMAIN notes }

\* Mutant of SelectNote: only an identifier with an entry is selected.
SelectNoteValidated ==
    \E id \in Idents :
        /\ Tick
        /\ current_note' = IF id \in DOMAIN notes THEN Some(id) ELSE current_note
        /\ op' = [name |-> "SelectNote", arg |-> id]
        /\ events' = IF id \in Offered THEN events
                     ELSE events \cup {"SelectUnoffered"}
        /\ UNCHANGED <<notes, error, file, saved, last_io, created>>

\* Message::SelectNote(id)
SelectNote ==
    \E id \in Idents :
        /\ Tick
        /\ current_note' = Some(id)
        /\ op' = [name |-> "SelectNote", arg |-> id]
        /\ events' = IF id \in Offered THEN events
                     ELSE events \cup {"SelectUnoffered"}
        /\ UNCHANGED <<notes, error, file, saved, last_io, created>>

\* Mutant of SetSelected: a selected identifier without an entry gets one.
SetSelectedUpsert(field, value) ==
    IF current_note = None THEN notes
    ELSE IF current_note.val \in DOMAIN notes
    THEN [notes EXCEPT ![current_note.val][field] = value]
    ELSE Insert(notes, current_note.val,
                [NewNote(current_note.val) EXCEPT ![field] = value])

\* Mutant of SetSelected: setting a field to the empty text removes the note.
SetSelectedDropEmpty(field, value) ==
    IF current_note # None /\ current_note.val \in DOMAIN notes
    THEN IF value = EmptyString
         THEN [k \in (DOMAIN notes) \ {current_note.val} |-> notes[k]]
         ELSE [notes EXCEPT ![current_note.val][field] = value]
    ELSE notes

\* Mutant of SetSelected: an empty value is refused.
SetSelectedSkipEmpty(field, value) ==
    IF current_note # None /\ current_note.val \in DOMAIN notes
          /\ value # EmptyString
    THEN [notes EXCEPT ![current_note.val][field] = value]
    ELSE notes

\* if let Some(id) = &self.current_note { if let Some(note) =
\* self.notes.get_mut(id) { note.<field> = value } }
SetSelected(field, value) ==
    IF current_note # None /\ current_note.val \in DOMAIN notes
    THEN [notes EXCEPT ![current_note.val][field] = value]
    ELSE notes

\* Message::UpdateNoteTitle(title)
UpdateNoteTitle ==
    \E title \in TextInputs :
        /\ Tick
        /\ notes' = SetSelected("title", title)
        /\ op' = [name |-> "UpdateNoteTitle", arg |-> title]
        /\ UNCHANGED <<current_note, error, file, saved, last_io, created,
                       events>>

\* Message::UpdateNoteContent(content)
UpdateNoteContent ==
    \E content \in TextInputs :
        /\ Tick
        /\ notes' = SetSelected("content", content)
        /\ op' = [name |-> "UpdateNoteContent", arg |-> content]
        /\ UNCHANGED <<current_note, error, file, saved, last_io, created,
                       events>>

\* Message::ChangeNoteColor(color)
ChangeNoteColor ==
    \E color \in NoteColor :
        /\ Tick
        /\ notes' = SetSelected("color", color)
        /\ op' = [name |-> "ChangeNoteColor", arg |-> color]
        /\ UNCHANGED <<current_note, error, file, saved, last_io, created,
                       events>>

\* Mutant of import_notes: the entries read before the failure are kept.
import_notes_partial ==
    IF file = NoFile
    THEN [ok |-> FALSE, err |-> "NotFound", notes |-> notes]
    ELSE LET p == from_str(file)
         IN  IF p.ok THEN [ok |-> TRUE, notes |-> p.map]
             ELSE [ok |-> FALSE, err |-> p.err, notes |-> p.partial]

\* NotesApp::import_notes: the Result, and self.notes as the call leaves it.
\* Either ? returns before the assignment to self.notes.
import_notes ==
    IF file = NoFile
    THEN [ok |-> FALSE, err |-> "NotFound", notes |-> notes]
    ELSE LET p == from_str(file)
         IN  IF p.ok THEN [ok |-> TRUE, notes |-> p.map]
             ELSE [ok |-> FALSE, err |-> p.err, notes |-> notes]

\* Mutant of ErrorAfter: a success leaves an earlier message in place.
ErrorAfterSticky(r) == IF r.ok THEN error ELSE Some(ErrorText(r.err))

\* match result { Ok(_) => self.error = None,
\*                Err(e) => self.error = Some(e.to_string()) }
ErrorAfter(r) == IF r.ok THEN None ELSE Some(ErrorText(r.err))

IoOutcome(r) ==
    IF r.ok THEN [res |-> "ok", msg |-> ""]
    ELSE [res |-> "err", msg |-> ErrorText(r.err)]

\* Mutant of ImportNotes: a selection without an entry in the imported
\* mapping is dropped.
ImportNotesValidating ==
    LET r == import_notes
    IN  /\ Tick
        /\ notes' = r.notes
        /\ current_note' =
              IF current_note # None /\ current_note.val \notin DOMAIN r.notes
              THEN None ELSE current_note
        /\ error' = ErrorAfter(r)
        /\ op' = [name |-> IF r.ok THEN "ImportOk" ELSE "ImportErr"]
        /\ last_io' = IoOutcome(r)
        /\ events' = IF r.ok THEN events \cup {"ImportOk"} ELSE events
        /\ UNCHANGED <<file, saved, created>>

\* Message::ImportNotes
ImportNotes ==
    LET r == import_notes
    IN  /\ Tick
        /\ notes' = r.notes
        /\ error' = ErrorAfter(r)
        /\ op' = [name |-> IF r.ok THEN "ImportOk" ELSE "ImportErr"]
        /\ last_io' = IoOutcome(r)
        /\ events' = IF r.ok THEN events \cup {"ImportOk"} ELSE events
        /\ UNCHANGED <<current_note, file, saved, created>>

\* What fs::write can do with a text of n members: write it all; fail to
\* open the file, leaving it as it was; or fail after truncating it and
\* writing the text up to some member.
WriteOutcomes(n) ==
    {[kind |-> "ok"], [kind |-> "open_failed"]}
        \cup {[kind |-> "cut", at |-> k] : k \in 0..n}

\* NotesApp::export_notes with iteration order o and fs::write outcome w:
\* the Result, and notes.json as the call leaves it.
export_notes(o, w) ==
    LET json == to_string(notes, o)
    IN  CASE w.kind = "ok" -> [ok |-> TRUE, file |-> json]
          [] w.kind = "open_failed" ->
                [ok |-> FALSE, err |-> "WriteFailed", file |-> file]
          [] w.kind = "cut" ->
                [ok |-> FALSE, err |-> "WriteFailed",
                 file |-> Doc(SubSeq(json.members, 1, w.at), FALSE)]

\* Mutant of ExportNotes: a failed export resets the store.
ExportNotesResetting ==
    \E o \in Orders(notes) :
      \E w \in WriteOutcomes(Len(o)) :
        LET r == export_notes(o, w)
        IN  /\ Tick
            /\ file' = r.file
            /\ error' = ErrorAfter(r)
            /\ op' = [name |-> IF r.ok THEN "ExportOk" ELSE "ExportErr"]
            /\ last_io' = IoOutcome(r)
            /\ saved' = IF r.ok THEN Some(notes)
                        ELSE IF r.file = file THEN saved ELSE None
            /\ notes' = IF r.ok THEN notes ELSE EmptyMap
            /\ current_note' = IF r.ok THEN current_note ELSE None
            /\ UNCHANGED <<created, events>>

\* Message::ExportNotes
ExportNotes ==
    \E o \in Orders(notes) :
      \E w \in WriteOutcomes(Len(o)) :
        LET r == export_notes(o, w)
        IN  /\ Tick
            /\ file' = r.file
            /\ error' = ErrorAfter(r)
            /\ op' = [name |-> IF r.ok THEN "ExportOk" ELSE "ExportErr"]
            /\ last_io' = IoOutcome(r)
            /\ saved' = IF r.ok THEN Some(notes)
                        ELSE IF r.file = file THEN saved ELSE None
            /\ UNCHANGED <<notes, current_note, created, events>>

\* Message::ClearError
ClearError ==
    /\ Tick
    /\ error' = None
    /\ op' = [name |-> "ClearError"]
    /\ last_io' = [res |-> "clear", msg |-> ""]
    /\ UNCHANGED <<notes, current_note, file, saved, created, events>>

\* The window is closed and the program started again: NotesApp::new gives
\* the empty state, notes.json stays as it is.
Relaunch ==
    /\ Tick
    /\ notes' = EmptyMap
    /\ current_note' = None
    /\ error' = None
    /\ op' = [name |-> "Relaunch"]
    /\ last_io' = [res |-> "none", msg |-> ""]
    /\ events' = events \cap {"ExternalWrite"}
    /\ UNCHANGED <<file, saved, created>>

\* Contents of notes.json that something other than export_notes leaves:
\* no file, the empty object, an entry whose key is not its id, a repeated
\* key, an unknown color name, an invalid escape, a text cut short.
ForeignEntry ==
    Member(<<"x", Backslash, Quote>>, <<"1">>, <<Plain>>, << >>, "Red")

ForeignFiles ==
    { NoFile,
      Doc(<< >>, TRUE),
      Doc(<<ForeignEntry>>, TRUE),
      Doc(<<Member(<<"1">>, <<"1">>, <<Plain>>, << >>, "Blue"),
            Member(<<"1">>, <<"1">>, << >>, <<Plain>>, "Green")>>, TRUE),
      Doc(<<ForeignEntry,
            Member(<<"2">>, <<"2">>, << >>, << >>, "Purple")>>, TRUE),
      Doc(<<ForeignEntry,
            Member(<<"2">>, <<"2">>, <<Backslash, Plain>>, << >>, "Red")>>, TRUE),
      Doc(<<ForeignEntry>>, FALSE) }

\* notes.json is replaced, edited or removed outside the program.
ExternalWrite ==
    \E d \in ForeignFiles :
        /\ Tick
        /\ file' = d
        /\ saved' = None
        /\ op' = [name |-> "ExternalWrite"]
        /\ events' = events \cup {"ExternalWrite"}
        /\ UNCHANGED <<notes, current_note, error, last_io, created>>

\* Mutant of note_editor: the selected entry is indexed without a check,
\* which panics when the key is absent.
note_editor_unchecked ==
    IF current_note # None
    THEN IF current_note.val \in DOMAIN notes
         THEN [pane |-> "editor",
               title |-> notes[current_note.val].title,
               content |-> notes[current_note.val].content,
               colors |-> NoteColor]
         ELSE [pane |-> "panic"]
    ELSE [pane |-> "Select a note to edit"]

\* NotesApp::view, the editor pane: the text inputs and color buttons of
\* the selected note, "Note not found", or "Select a note to edit".
note_editor ==
    IF current_note # None
    THEN IF current_note.val \in DOMAIN notes
         THEN [pane |-> "editor",
               title |-> notes[current_note.val].title,
               content |-> notes[current_note.val].content,
               colors |-> NoteColor]
         ELSE [pane |-> "Note not found"]
    ELSE [pane |-> "Select a note to edit"]

Next ==
    \/ CreateNote
    \/ SelectNote
    \/ UpdateNoteTitle
    \/ UpdateNoteContent
    \/ ChangeNoteColor
    \/ ImportNotes
    \/ ExportNotes
    \/ ClearError
    \/ Relaunch
    \/ ExternalWrite

Spec == Init /\ [][Next]_vars

\* ---------------------------------------------------------------- claims

Updates == {"UpdateNoteTitle", "UpdateNoteContent", "ChangeNoteColor"}

Imports == {"ImportOk", "ImportErr"}

Exports == {"ExportOk", "ExportErr"}

Dangling == current_note # None /\ current_note.val \notin DOMAIN notes

\* C1: when Import fails (notes.json cannot be read or cannot be
\* deserialized) the note mapping after the call is exactly the mapping
\* before it, and the error slot holds a non-empty message.
C1_FailedImportKeepsStore ==
    [][op'.name = "ImportErr" =>
          /\ notes' = notes
          /\ error' # None
          /\ error'.val # ""]_vars

\* C1 witness: a failed import of a file whose first entry is readable and
\* whose second is not, into a store that holds a note.
C1_Witness ==
    /\ op.name = "ImportErr"
    /\ file # NoFile
    /\ Len(file.members) = 2
    /\ DOMAIN notes # {}
    /\ error = Some(ErrorText("UnknownVariant"))

\* C2: round trip.  While notes.json is what the last successful Export of
\* mapping M wrote, a successful Import sets the note mapping to exactly M,
\* whatever was created, selected or updated in between and also from the
\* empty store of a fresh start.
C2_RoundTrip ==
    [][(op'.name = "ImportOk" /\ saved # None) => notes' = saved.val]_vars

\* C2 witness: an import restored an exported mapping that holds a title
\* with escaped characters, and a note created after the export is gone.
C2_Witness ==
    /\ op.name = "ImportOk"
    /\ saved = Some(notes)
    /\ \E k \in DOMAIN notes : notes[k].title = <<Backslash, Quote>>
    /\ created \ DOMAIN notes # {}

\* C3 (as claimed): the identifier generated by each Create differs from
\* every key already in the store and from every identifier generated
\* earlier, so each Create increases the number of notes by exactly one.
C3_CreateAlwaysFresh ==
    [][op'.name = "CreateNote" =>
          /\ op'.arg \notin DOMAIN notes
          /\ op'.arg \notin created
          /\ Cardinality(DOMAIN notes') = Cardinality(DOMAIN notes) + 1]_vars

\* C3 (amended): Create stores the new note under the generated identifier
\* and leaves every entry under another key as it was; when the identifier
\* is not yet a key the number of notes grows by exactly one, and when it
\* is already a key that entry is replaced and the number stays.
C3_CreateInsertsOneKey ==
    [][op'.name = "CreateNote" =>
          /\ DOMAIN notes' = (DOMAIN notes) \cup {op'.arg}
          /\ \A k \in (DOMAIN notes) \ {op'.arg} : notes'[k] = notes[k]
          /\ Cardinality(DOMAIN notes') =
                IF op'.arg \in DOMAIN notes
                THEN Cardinality(DOMAIN notes)
                ELSE Cardinality(DOMAIN notes) + 1]_vars

\* C3 witness: a Create added a note to a store that holds an edited note
\* under another key.
C3_Witness ==
    /\ op.name = "CreateNote"
    /\ \E k \in (DOMAIN notes) \ {op.arg} : notes[k] # NewNote(k)

\* C4: after Create the selected identifier is the generated one, and the
\* mapping holds under it a note with that id, title "New Note", empty
\* content and color Yellow.
C4_CreateSelectsDefaultNote ==
    [][op'.name = "CreateNote" =>
          /\ current_note' = Some(op'.arg)
          /\ op'.arg \in DOMAIN notes'
          /\ notes'[op'.arg] =
                Note(op'.arg, <<"N", "e", "w", " ", "N", "o", "t", "e">>,
                     << >>, "Yellow")]_vars

\* C4 witness: a second note was created while another one was selected
\* and the error slot was set.
C4_Witness ==
    /\ op.name = "CreateNote"
    /\ current_note = Some(op.arg)
    /\ Cardinality(DOMAIN notes) = 2
    /\ error # None

\* C5: Update Title, Update Content and Update Color change nothing (note
\* mapping, selection, error slot) when nothing is selected or the selected
\* identifier is not a key of the mapping.
C5_UpdateWithoutTargetIsNoOp ==
    [][(op'.name \in Updates /\ (current_note = None \/ Dangling)) =>
          UNCHANGED <<notes, current_note, error>>]_vars

\* C5 witness: an update arrived while the selection named no entry of a
\* non-empty mapping.
C5_Witness ==
    /\ op.name \in Updates
    /\ Dangling
    /\ DOMAIN notes # {}

\* C6: the error slot is set by a failing Import or Export to that
\* failure's message, cleared by ClearError and by a successful Import or
\* Export, and left alone by Create, Select and the updates; so it is set
\* exactly when the latest of Import, Export and ClearError was a failure,
\* and then holds that failure's non-empty message.
C6_ErrorSlotProtocol ==
    /\ []((error # None) <=> (last_io.res = "err"))
    /\ [](error # None => (error.val = last_io.msg /\ error.val # ""))
    /\ [][/\ op'.name \in {"CreateNote", "SelectNote"} \cup Updates
                => error' = error
          /\ op'.name \in {"ClearError", "ImportOk", "ExportOk"}
                => error' = None
          /\ op'.name \in {"ImportErr", "ExportErr"}
                => (error' # None /\ error' = Some(last_io'.msg))]_vars

\* C6 witness: a failed export set the error slot to its own message after
\* a failed import had left the message of a missing file.
C6_Witness ==
    /\ op.name = "ExportErr"
    /\ file = NoFile
    /\ error = Some(ErrorText("WriteFailed"))
    /\ last_io.msg # ErrorText("NotFound")
    /\ steps >= 2

\* C7: Import, successful or not, leaves the selected identifier as it was.
C7_ImportKeepsSelection ==
    [][op'.name \in Imports => current_note' = current_note]_vars

\* C7 witness: after a successful import the selection names an identifier
\* that is not a key of the new mapping.
C7_Witness ==
    /\ op.name = "ImportOk"
    /\ Dangling
    /\ DOMAIN notes # {}

\* C8: Select(id) sets the selected identifier to id whether or not id is
\* a key, and leaves the note mapping and the error slot unchanged.
C8_SelectSetsAnyIdentifier ==
    [][op'.name = "SelectNote" =>
          /\ current_note' = Some(op'.arg)
          /\ notes' = notes
          /\ error' = error]_vars

\* C8 witness: an identifier without an entry was selected while the
\* mapping held a note and the error slot was set.
C8_Witness ==
    /\ op.name = "SelectNote"
    /\ current_note = Some(op.arg)
    /\ op.arg \notin DOMAIN notes
    /\ DOMAIN notes # {}
    /\ error # None

\* C9: Export, successful or not, leaves the note mapping and the selected
\* identifier as they were.
C9_ExportKeepsStore ==
    [][op'.name \in Exports =>
          (notes' = notes /\ current_note' = current_note)]_vars

\* C9 witness: a failed export that cut notes.json short, with a note in
\* the store and selected.
C9_Witness ==
    /\ op.name = "ExportErr"
    /\ file # NoFile
    /\ ~file.complete
    /\ current_note # None
    /\ current_note.val \in DOMAIN notes

\* C10: every operation other than a successful Import keeps every key of
\* the note mapping.
C10_KeysOnlyLeaveOnImport ==
    [][op'.name \in {"CreateNote", "SelectNote", "ClearError", "ImportErr"}
                      \cup Updates \cup Exports
          => (DOMAIN notes) \subseteq (DOMAIN notes')]_vars

\* C10 witness: the selected note's title was set to the empty text and
\* the note is still there.
C10_Witness ==
    /\ op.name = "UpdateNoteTitle"
    /\ op.arg = EmptyString
    /\ current_note # None
    /\ current_note.val \in DOMAIN notes
    /\ notes[current_note.val].title = EmptyString

\* The field of Note that each update message assigns.
FieldOf(name) ==
    CASE name = "UpdateNoteTitle"   -> "title"
      [] name = "UpdateNoteContent" -> "content"
      [] name = "ChangeNoteColor"   -> "color"

\* C11: when the selected identifier is a key of the mapping, an update
\* sets exactly its field of the selected note to the given value (the
\* empty text included) and changes nothing else: the note's id and other
\* fields, every other note, the set of keys, the selection and the error
\* slot stay as they were.
C11_UpdateSetsOneField ==
    [][(op'.name \in Updates /\ current_note # None
            /\ current_note.val \in DOMAIN notes) =>
          /\ DOMAIN notes' = DOMAIN notes
          /\ notes'[current_note.val] =
                [notes[current_note.val] EXCEPT ![FieldOf(op'.name)] = op'.arg]
          /\ \A k \in (DOMAIN notes) \ {current_note.val} : notes'[k] = notes[k]
          /\ current_note' = current_note
          /\ error' = error]_vars

\* C11 witness: with two notes in the store and the error slot set, the
\* selected note's title was set to the empty text; the other note still
\* has the default title.
C11_Witness ==
    /\ op.name = "UpdateNoteTitle"
    /\ op.arg = EmptyString
    /\ current_note # None
    /\ current_note.val \in DOMAIN notes
    /\ notes[current_note.val].title = EmptyString
    /\ \E k \in (DOMAIN notes) \ {current_note.val} : notes[k].title = NewNoteTitle
    /\ error # None

\* C12: in every reachable state the editor pane shows exactly one of
\* three things, decided by the state alone: "Select a note to edit" iff
\* nothing is selected, "Note not found" iff the selected identifier is not
\* a key of the mapping, and the editor of the selected note (its title and
\* content, the five color buttons) iff the selected identifier is a key.
C12_EditorPaneStates ==
    /\ note_editor.pane \in {"Select a note to edit", "Note not found", "editor"}
    /\ (note_editor.pane = "Select a note to edit") <=> (current_note = None)
    /\ (note_editor.pane = "Note not found") <=> Dangling
    /\ (note_editor.pane = "editor") <=>
          (current_note # None /\ current_note.val \in DOMAIN notes)
    /\ note_editor.pane = "editor" =>
          /\ note_editor.title = notes[current_note.val].title
          /\ note_editor.content = notes[current_note.val].content
          /\ note_editor.colors = {"Red", "Green", "Blue", "Yellow", "Orange"}

\* C12 witness: a successful import left a created note selected that the
\* imported mapping does not hold, and the pane shows "Note not found".
C12_Witness ==
    /\ op.name = "ImportOk"
    /\ current_note # None
    /\ current_note.val \in created
    /\ current_note.val \notin DOMAIN notes
    /\ note_editor.pane = "Note not found"

\* C13: while notes.json has been written by nothing but this program's
\* Export, every entry of the note mapping is stored under the key that is
\* its note's own id field.
C13_KeyIsNoteId ==
    "ExternalWrite" \notin events =>
        \A k \in DOMAIN notes : notes[k].id = k

\* C13 witness: an import brought two notes back from the program's own
\* export, each under its id.
C13_Witness ==
    /\ "ExternalWrite" \notin events
    /\ op.name = "ImportOk"
    /\ Cardinality(DOMAIN notes) = 2
    /\ \A k \in DOMAIN notes : notes[k].id = k

\* C14: as long as this run of the program has had no successful Import
\* and every Select carried an identifier the note list offered, the
\* selected identifier is absent or a key of the mapping; and a selection
\* that names no entry arises only in a successful Import or in a Select
\* of an identifier that is not a key.
C14_SelectionPointsIntoStore ==
    /\ [](events \cap {"ImportOk", "SelectUnoffered"} = {} => ~Dangling)
    /\ [][(~Dangling /\ Dangling') =>
             \/ op'.name = "ImportOk"
             \/ (op'.name = "SelectNote" /\ op'.arg \notin DOMAIN notes)]_vars

\* C14 witness: with no import and only offered selections so far, the
\* selected one of two notes was recolored while the other holds an edited
\* title.
C14_Witness ==
    /\ events \cap {"ImportOk", "SelectUnoffered"} = {}
    /\ op.name = "ChangeNoteColor"
    /\ Cardinality(DOMAIN notes) = 2
    /\ current_note # None
    /\ current_note.val \in DOMAIN notes
    /\ notes[current_note.val].color = "Green"
    /\ \E k \in (DOMAIN notes) \ {current_note.val} :
          notes[k].title = <<Backslash, Quote>>

====
